---- MODULE Spec2Model ----
(***************************************************************************)
(* Visonic Alarm integration for Home Assistant.                           *)
(*                                                                         *)
(*   alarm_control_panel.py : the panel entity (VisonicAlarm), its         *)
(*                            arm/disarm commands and the state-changed    *)
(*                            listener                                     *)
(*   sensor.py              : the sensor platform setup and the sensor     *)
(*                            entity (VisonicAlarmContact)                 *)
(*                                                                         *)
(* The hub (the vendor client) is an external collaborator: what           *)
(* hub.update() brings back is a nondeterministic choice from the bounded  *)
(* sets below.  Python strings that the code only copies or compares for   *)
(* equality are TLA+ strings; strings the code searches, lower-cases or    *)
(* formats are sequences of one-character strings.                         *)
(***************************************************************************)
EXTENDS Naturals, Sequences, FiniteSets, TLC

VARIABLES
    \* ---- the hub (external), as of its last update() ----
    hub_state,          \* hub.alarm.state
    hub_ready,          \* hub.alarm.ready
    hub_devices,        \* hub.alarm.devices
    hub_events,         \* what hub.alarm.get_events() returns
    \* ---- alarm_control_panel.py: VisonicAlarm ----
    state,              \* self._state
    code,               \* self._code
    no_pin_required,    \* self._no_pin_required
    changed_by,         \* self._changed_by
    changed_timestamp,  \* self._changed_timestamp
    panel_call,         \* the last panel handler that ran, and what it did
    \* ---- sensor.py ----
    keyfobs,            \* KEYFOB_DICT
    registered,         \* the ids handed to add_devices by the last setup pass
    sensors,            \* the VisonicAlarmContact entities, by id
    sensor_call         \* the last sensor handler that ran, and how it ended

hubVars    == <<hub_state, hub_ready, hub_devices, hub_events>>
panelVars  == <<state, code, no_pin_required, changed_by, changed_timestamp, panel_call>>
sensorVars == <<keyfobs, registered, sensors, sensor_call>>
vars       == <<hubVars, panelVars, sensorVars>>

(***************************************************************************)
(* Python values                                                           *)
(***************************************************************************)
\* None, where the other values of the field are plain strings
None == "<None>"
\* None, where the other values of the field are character sequences
NoneStr == <<"<None>">>

PyTrue  == "True"
PyFalse == "False"

(***************************************************************************)
(* alarm_control_panel.py                                                  *)
(***************************************************************************)
STATE_UNKNOWN == "unknown"
ARMED_AWAY    == "armed_away"
ARMED_HOME    == "armed_home"
DISARMED      == "disarmed"
ARMING        == "arming"
PENDING       == "pending"
TRIGGERED     == "triggered"

PANEL_ENTITY_ID == "alarm_control_panel.visonic_alarm"

\* The status strings the hub reports.  The first six are the ones update()
\* names; DISARMING is the seventh alarm state sensor.py tests for.
HubStates == {"AWAY", "HOME", "DISARM", "ARMING", "ENTRYDELAY", "ALARM", "DISARMING"}

\* hub.config.get(CONF_USER_CODE): the configured code, or None when unset
UserCodes == {"1234", None}
\* the code argument of alarm_disarm / alarm_arm_home / alarm_arm_away
GivenCodes == {"1234", "0000", None}
\* hub.config.get(CONF_NO_PIN_REQUIRED): True, False, or None when unset
NoPinValues == {PyTrue, PyFalse, None}

\* hub.alarm.get_last_event(): {user, timestamp}
LastEvents == { [user |-> "Alice", timestamp |-> "10:00"],
                [user |-> "Bob",   timestamp |-> "11:30"] }

\* The state-changed events the bus delivers: entity_id, old_state, new_state
\* (None, or a State whose .state is the string).
EventEntities  == {PANEL_ENTITY_ID, "sensor.front_door"}
EventOldStates == {None, DISARMED}
EventNewStates == {None, STATE_UNKNOWN, "", DISARMED, ARMED_HOME, ARMED_AWAY, ARMING}

AlarmStateOfSwapped(status) ==
    IF status = "AWAY" THEN ARMED_HOME
    ELSE IF status = "HOME" THEN ARMED_AWAY
    ELSE IF status = "DISARM" THEN DISARMED
    ELSE IF status = "ARMING" THEN ARMING
    ELSE IF status = "ENTRYDELAY" THEN PENDING
    ELSE IF status = "ALARM" THEN TRIGGERED
    ELSE status

\* VisonicAlarm.update: the if/elif chain on hub.alarm.state
AlarmStateOf(status) ==
    IF status = "AWAY" THEN ARMED_AWAY
    ELSE IF status = "HOME" THEN ARMED_HOME
    ELSE IF status = "DISARM" THEN DISARMED
    ELSE IF status = "ARMING" THEN ARMING
    ELSE IF status = "ENTRYDELAY" THEN PENDING
    ELSE IF status = "ALARM" THEN TRIGGERED
    ELSE status

\* `if self._no_pin_required == False:` -- None == False is False in Python
PinChecked(npr) == npr = PyFalse

\* the wrong-code branch of the three commands
PinRejected(npr, given, configured) == PinChecked(npr) /\ given # configured

ReadyGateOpen(ready) == TRUE

\* `if hub.alarm.ready:` in alarm_arm_home / alarm_arm_away
ReadyGate(ready) == ready

FetchesLastEventAlways(new) == TRUE

\* `if new_state.state in (ARMED_HOME, ARMED_AWAY, DISARMED):`
FetchesLastEvent(new) == new \in {ARMED_HOME, ARMED_AWAY, DISARMED}

\* What a panel handler did, for the record kept in panel_call.
PanelCall(op, given, ready, sent, notified, polled, fetched, entity, old, new) ==
    [op |-> op, code |-> given, ready |-> ready, sent |-> sent,
     notified |-> notified, polled |-> polled, fetched |-> fetched,
     entity |-> entity, old |-> old, new |-> new]

NoCall == PanelCall("init", None, FALSE, "none", FALSE, FALSE, FALSE, None, None, None)

\* setup_platform: hub.update(), then VisonicAlarm.__init__
PanelInit ==
    /\ hub_state \in HubStates
    /\ hub_ready \in BOOLEAN
    /\ state = STATE_UNKNOWN
    /\ code \in UserCodes
    /\ no_pin_required \in NoPinValues
    /\ changed_by = None
    /\ changed_timestamp = None
    /\ panel_call = NoCall

\* VisonicAlarm.update as a step of its own (the scheduler's poll)
Update ==
    \E s \in HubStates, r \in BOOLEAN :
        /\ hub_state' = s
        /\ hub_ready' = r
        /\ state' = AlarmStateOf(s)
        /\ panel_call' = PanelCall("update", None, FALSE, "none", FALSE, TRUE, FALSE,
                                   None, None, None)
        /\ UNCHANGED <<code, no_pin_required, changed_by, changed_timestamp>>

\* The tail shared by the commands once a command went to the hub:
\* sleep(1); self.update()
CommandSent(op, given, cmd) ==
    \E s \in HubStates, r \in BOOLEAN :
        /\ hub_state' = s
        /\ hub_ready' = r
        /\ state' = AlarmStateOf(s)
        /\ panel_call' = PanelCall(op, given, hub_ready, cmd, FALSE, TRUE, FALSE,
                                   None, None, None)

\* pn.create(...) and nothing else
CommandRefused(op, given) ==
    /\ panel_call' = PanelCall(op, given, hub_ready, "none", TRUE, FALSE, FALSE,
                               None, None, None)
    /\ UNCHANGED <<hub_state, hub_ready, state>>

AlarmDisarm ==
    \E given \in GivenCodes :
        /\ IF PinRejected(no_pin_required, given, code)
           THEN CommandRefused("alarm_disarm", given)
           ELSE CommandSent("alarm_disarm", given, "disarm")
        /\ UNCHANGED <<code, no_pin_required, changed_by, changed_timestamp>>

AlarmArmHome ==
    \E given \in GivenCodes :
        /\ IF PinRejected(no_pin_required, given, code)
           THEN CommandRefused("alarm_arm_home", given)
           ELSE IF ReadyGate(hub_ready)
                THEN CommandSent("alarm_arm_home", given, "arm_home")
                ELSE CommandRefused("alarm_arm_home", given)
        /\ UNCHANGED <<code, no_pin_required, changed_by, changed_timestamp>>

AlarmArmAway ==
    \E given \in GivenCodes :
        /\ IF PinRejected(no_pin_required, given, code)
           THEN CommandRefused("alarm_arm_away", given)
           ELSE IF ReadyGate(hub_ready)
                THEN CommandSent("alarm_arm_away", given, "arm_away")
                ELSE CommandRefused("alarm_arm_away", given)
        /\ UNCHANGED <<code, no_pin_required, changed_by, changed_timestamp>>

\* setup_platform.arm_event_listener.  With the panel's entity id and
\* old_state None, `old_state.state` raises AttributeError before anything is
\* written: the handler ends there.
ArmEventListener ==
    \E entity \in EventEntities, old \in EventOldStates, new \in EventNewStates :
        LET ignored  == new = None \/ new \in {STATE_UNKNOWN, ""}
            raises   == ~ignored /\ entity = PANEL_ENTITY_ID /\ old = None
            accepted == ~ignored /\ ~raises /\ entity = PANEL_ENTITY_ID /\ old # new
            fetch    == accepted /\ FetchesLastEvent(new)
        IN  /\ state' = IF accepted THEN new ELSE state
            /\ IF fetch
               THEN \E last_event \in LastEvents :
                        /\ changed_by' = last_event.user
                        /\ changed_timestamp' = last_event.timestamp
               ELSE UNCHANGED <<changed_by, changed_timestamp>>
            /\ panel_call' = PanelCall("event", None, FALSE, "none", FALSE, FALSE, fetch,
                                       entity, old, new)
            /\ UNCHANGED <<hub_state, hub_ready, code, no_pin_required>>

(***************************************************************************)
(* sensor.py: strings                                                      *)
(***************************************************************************)
STATE_CLOSED == "closed"
STATE_OFF    == "off"
STATE_ON     == "on"
STATE_OPEN   == "open"

CONTACT  == <<"C","O","N","T","A","C","T">>
MOTION   == <<"M","O","T","I","O","N">>
CURTAIN  == <<"C","U","R","T","A","I","N">>
KEYFOB   == <<"K","E","Y","F","O","B">>
SMOKE    == <<"S","M","O","K","E">>
H24      == <<"2","4","H">>
INTERIOR == <<"I","N","T","E","R","I","O","R">>
PERIMETER == <<"P","E","R","I","M","E","T","E","R">>

UpperAlpha == <<"A","B","C","D","E","F","G","H","I","J","K","L","M",
                "N","O","P","Q","R","S","T","U","V","W","X","Y","Z">>
LowerAlpha == <<"a","b","c","d","e","f","g","h","i","j","k","l","m",
                "n","o","p","q","r","s","t","u","v","w","x","y","z">>
DigitChars == <<"0","1","2","3","4","5","6","7","8","9">>

\* Python's `sub in s` on strings
Contains(s, sub) ==
    /\ Len(sub) <= Len(s)
    /\ \E i \in 0..(Len(s) - Len(sub)) : \A j \in 1..Len(sub) : s[i + j] = sub[j]

UpperLetters == { UpperAlpha[i] : i \in 1..Len(UpperAlpha) }

\* the lower-case letter of each upper-case one
LowerOf ==
    [c \in UpperLetters |-> LowerAlpha[CHOOSE i \in 1..Len(UpperAlpha) : UpperAlpha[i] = c]]

LowerChar(c) == IF c \in UpperLetters THEN LowerOf[c] ELSE c

\* str.lower()
Lower(s) == [i \in 1..Len(s) |-> LowerChar(s[i])]

RECURSIVE IntToStr(_)
\* str(n) for n >= 0, as an f-string formats it
IntToStr(n) ==
    IF n < 10 THEN <<DigitChars[n + 1]>>
    ELSE IntToStr(n \div 10) \o <<DigitChars[(n % 10) + 1]>>

\* f"user {device.device_number}"
UserKey(n) == <<"u","s","e","r"," ">> \o IntToStr(n)

\* the appointment the vendor's event log gives keyfob n: "User n"
UserAppointment(n) == <<"U","s","e","r"," ">> \o IntToStr(n)
PanelAppointment == <<"P","a","n","e","l">>

(***************************************************************************)
(* The hub's devices and event log                                         *)
(***************************************************************************)
\* devices the hub lists
MaxDevices == 2
\* events the hub's log returns
MaxEvents == 2
\* the device numbers the hub gives keyfobs
KeyfobNumbers == {1, 2}

\* An entry of hub.alarm.devices, or the result of get_device_by_id: <<>> is
\* None, <<d>> is the device d.
NoDevice == <<>>

Device(id, name, zone, device_type, subtype, st, number) ==
    [id |-> id, name |-> name, zone |-> zone, device_type |-> device_type,
     subtype |-> subtype, state |-> st, device_number |-> number]

\* the name the vendor gives device id (a string the code only copies)
BaseName(id) == "Zone " \o ToString(id)

\* The records a setup pass meets for device id: every subtype (None, the four
\* recognized ones, an unrecognized one); a keyfob carries any keyfob number.
SetupRecords(id) ==
    { Device(id, BaseName(id), PERIMETER, "ZONE", sub, STATE_CLOSED, 1) :
        sub \in {NoneStr, CONTACT, MOTION, CURTAIN, SMOKE} }
    \cup
    { Device(id, BaseName(id), PERIMETER, "ZONE", KEYFOB, STATE_CLOSED, n) :
        n \in KeyfobNumbers }

SetupEntries(id) == {NoDevice} \cup { <<d>> : d \in SetupRecords(id) }

\* the same, by position in the list
SetupEntriesAt == [i \in 1..MaxDevices |-> SetupEntries(i)]

\* device lists of MaxDevices entries; the entry at position i is None or the
\* device with id i (the loop of setup_platform passes over a None entry, so a
\* shorter list is one of these with None entries)
DeviceLists ==
    { l \in [1..MaxDevices -> UNION { SetupEntriesAt[i] : i \in 1..MaxDevices }] :
        \A i \in 1..MaxDevices : l[i] \in SetupEntriesAt[i] }

\* An event of the log, most recent first: the i-th carries the i-th timestamp
\* and a description that alternates.
Event(i, appointment) ==
    [appointment |-> appointment,
     datetime    |-> <<"#">> \o IntToStr(i),
     description |-> IF i % 2 = 1 THEN "Arm" ELSE "Disarm"]

Appointments == {UserAppointment(1), PanelAppointment}

\* the log: empty, or MaxEvents events
EventLogs ==
    { <<>> } \cup { [i \in 1..MaxEvents |-> Event(i, a[i])] : a \in [1..MaxEvents -> Appointments] }

\* The alarm modes a sensor poll meets: those update() distinguishes and one
\* it does not.
AlarmModes == {"DISARM", "ARMING", "HOME", "AWAY", "DISARMING", "ALARM"}

\* The records a poll meets for device id.  Each family varies the fields its
\* branch of update() reads: the zone for motion and curtain detectors, the
\* keyfob number for keyfobs, the vendor status for contacts and for subtypes
\* with none of the four tags; the last family carries two tags at once.
PollRecords(id) ==
    { Device(id, BaseName(id), z, "ZONE", sub, STATE_CLOSED, 1) :
        z \in {H24, INTERIOR, PERIMETER}, sub \in {MOTION, CURTAIN} }
    \cup
    { Device(id, BaseName(id), PERIMETER, "KEYFOB", KEYFOB, STATE_CLOSED, n) :
        n \in KeyfobNumbers }
    \cup
    { Device(id, BaseName(id), PERIMETER, "ZONE", CONTACT, st, 1) :
        st \in {"opened", STATE_CLOSED} }
    \cup
    { Device(id, BaseName(id), PERIMETER, "ZONE", sub, None, 1) :
        sub \in {MOTION, KEYFOB, CONTACT} }
    \cup
    { Device(id, BaseName(id), H24, "ZONE", SMOKE, st, 1) :
        st \in {"opened", STATE_CLOSED} }
    \cup
    { Device(id, BaseName(id), INTERIOR, "ZONE", sub, "opened", 1) :
        sub \in {MOTION \o <<"_">> \o KEYFOB, KEYFOB \o <<"_">> \o CONTACT} }

(***************************************************************************)
(* sensor.py: setup_platform                                               *)
(***************************************************************************)
IsRecognizedContactOnly(subtype) == Contains(subtype, CONTACT)

\* the four-way `in device.subtype` test
IsRecognized(subtype) ==
    \/ Contains(subtype, CONTACT)
    \/ Contains(subtype, MOTION)
    \/ Contains(subtype, CURTAIN)
    \/ Contains(subtype, KEYFOB)

RECURSIVE FirstEventFor(_, _)
\* the `for _event in events: ... break` loop: <<last_time_used, last_operation>>
FirstEventFor(events, user) ==
    IF events = <<>> THEN <<NoneStr, None>>
    ELSE IF user = Lower(Head(events).appointment)
         THEN <<Head(events).datetime, Head(events).description>>
         ELSE FirstEventFor(Tail(events), user)

EmptyMap == [k \in {} |-> None]

\* keyfobs.update({user: value})
DictUpdate(dict, key, value) ==
    [k \in (DOMAIN dict) \cup {key} |-> IF k = key THEN value ELSE dict[k]]

\* VisonicAlarmContact.__init__
NewSensor ==
    [state |-> STATE_UNKNOWN, name |-> None, zone |-> NoneStr, device_type |-> None,
     keyfob_number |-> <<>>, subtype |-> NoneStr,
     last_time_used |-> NoneStr, last_operation |-> None]

RECURSIVE SetupLoop(_, _, _, _)
\* the `for device in hub.alarm.devices:` loop, from the dictionary and the
\* entities added so far: [keyfobs, added]
SetupLoop(devices, events, dict, added) ==
    IF devices = <<>> THEN [keyfobs |-> dict, added |-> added]
    ELSE LET entry == Head(devices)
             rest  == Tail(devices)
         IN  IF entry = NoDevice THEN SetupLoop(rest, events, dict, added)
             ELSE LET device == entry[1]
                  IN  IF device.subtype = NoneStr \/ ~IsRecognized(device.subtype)
                      THEN SetupLoop(rest, events, dict, added)
                      ELSE LET user == UserKey(device.device_number)
                               used == FirstEventFor(events, user)
                               dict2 ==
                                   IF Contains(device.subtype, KEYFOB)
                                   THEN DictUpdate(dict, user,
                                            <<device.name, device.id, used[1], used[2]>>)
                                   ELSE dict
                           IN  SetupLoop(rest, events, dict2, Append(added, device.id))

SetupKeepsOldKeyfobs(devices, events, old) == SetupLoop(devices, events, old, <<>>)

\* setup_platform after hub.update(): keyfobs.clear(), get_events(), the loop
SetupPass(devices, events, old) == SetupLoop(devices, events, EmptyMap, <<>>)

\* sensor_call: the last sensor handler, the entity it ran on, how it ended
SensorCall(op, id, outcome) == [op |-> op, id |-> id, outcome |-> outcome]

\* sensor.py setup_platform, with what hub.update() and get_events() brought
\* back.  The platform's former entities are gone with the reload that runs
\* it, and add_devices holds the new ones.
SetupPlatform(devices, events) ==
    /\ hub_devices' = devices
    /\ hub_events' = events
    /\ \E r \in { SetupPass(devices, events, keyfobs) } :
           /\ keyfobs' = r.keyfobs
           /\ registered' = r.added
           /\ sensors' = [id \in { r.added[i] : i \in 1..Len(r.added) } |-> NewSensor]
    /\ sensor_call' = SensorCall("setup", 0, "done")
    /\ UNCHANGED <<hub_state, hub_ready>>

(***************************************************************************)
(* sensor.py: VisonicAlarmContact.update                                   *)
(***************************************************************************)
RECURSIVE GetDeviceById(_, _)
\* self._alarm.get_device_by_id(self._id): the device, or None
GetDeviceById(devices, id) ==
    IF devices = <<>> THEN NoDevice
    ELSE IF Head(devices) # NoDevice /\ Head(devices)[1].id = id THEN Head(devices)
         ELSE GetDeviceById(Tail(devices), id)

MotionStateHomeFlipped(mode, zone) ==
    IF mode \in {"DISARM", "ARMING"}
    THEN (IF Contains(zone, H24) THEN STATE_ON ELSE STATE_OFF)
    ELSE IF mode = "HOME"
         THEN (IF Contains(zone, INTERIOR) THEN STATE_ON ELSE STATE_OFF)
         ELSE IF mode \in {"AWAY", "DISARMING"} THEN STATE_ON
              ELSE STATE_UNKNOWN

\* the CURTAIN / MOTION branch
MotionState(mode, zone) ==
    IF mode \in {"DISARM", "ARMING"}
    THEN (IF Contains(zone, H24) THEN STATE_ON ELSE STATE_OFF)
    ELSE IF mode = "HOME"
         THEN (IF Contains(zone, INTERIOR) THEN STATE_OFF ELSE STATE_ON)
         ELSE IF mode \in {"AWAY", "DISARMING"} THEN STATE_ON
              ELSE STATE_UNKNOWN

\* the CONTACT branch
ContactState(status) == IF status = "opened" THEN STATE_OPEN ELSE STATE_CLOSED

\* the final elif/else: a subtype with none of the four tags
OtherState(status) ==
    IF status = "opened" THEN STATE_OPEN
    ELSE IF status = "closed" THEN STATE_CLOSED
    ELSE STATE_UNKNOWN

\* lines 236-239
CopyAttributes(self, device) ==
    [self EXCEPT !.zone = device.zone, !.name = device.name,
                 !.device_type = device.device_type, !.subtype = device.subtype]

\* The body of the try block once hub.update() has returned: the entity as the
\* poll leaves it, and how the poll ended ("updated"; "skipped" at the early
\* return; "raised" when an AttributeError or KeyError leaves update()).
PollResult(self, found, mode, dict) ==
    IF found = NoDevice
    THEN [sensor |-> self, outcome |-> "raised"]
    ELSE LET device == found[1]
             status == device.state
         IN  IF status = None
             THEN [sensor |-> self, outcome |-> "skipped"]
             ELSE IF Contains(device.subtype, CURTAIN) \/ Contains(device.subtype, MOTION)
             THEN [sensor |-> CopyAttributes(
                                 [self EXCEPT !.state = MotionState(mode, device.zone)],
                                 device),
                   outcome |-> "updated"]
             ELSE IF Contains(device.subtype, KEYFOB)
             THEN LET user == UserKey(device.device_number)
                      set  == [self EXCEPT !.state = STATE_CLOSED,
                                           !.keyfob_number = <<device.device_number>>]
                  IN  IF user \in DOMAIN dict
                      THEN [sensor |-> CopyAttributes(
                                          [set EXCEPT !.last_time_used = dict[user][3],
                                                      !.last_operation = dict[user][4]],
                                          device),
                            outcome |-> "updated"]
                      ELSE [sensor |-> set, outcome |-> "raised"]
             ELSE IF Contains(device.subtype, CONTACT)
             THEN [sensor |-> CopyAttributes([self EXCEPT !.state = ContactState(status)], device),
                   outcome |-> "updated"]
             ELSE [sensor |-> CopyAttributes([self EXCEPT !.state = OtherState(status)], device),
                   outcome |-> "updated"]

PollOnOSErrorResets(self) == NewSensor

\* the except OSError branch: log a warning, nothing else
PollOnOSError(self) == self

\* VisonicAlarmContact.update on entity id.  io_ok: hub.update() returned;
\* devices, mode: what it brought back.  When it raises OSError the hub's data
\* stay as they were.
SensorUpdate(id, io_ok, devices, mode) ==
    /\ id \in DOMAIN sensors
    /\ IF io_ok
       THEN \E r \in { PollResult(sensors[id], GetDeviceById(devices, id), mode, keyfobs) } :
                /\ hub_devices' = devices
                /\ hub_state' = mode
                /\ sensors' = [sensors EXCEPT ![id] = r.sensor]
                /\ sensor_call' = SensorCall("update", id, r.outcome)
       ELSE /\ sensors' = [sensors EXCEPT ![id] = PollOnOSError(sensors[id])]
            /\ sensor_call' = SensorCall("update", id, "oserror")
            /\ UNCHANGED <<hub_devices, hub_state>>
    /\ UNCHANGED <<hub_ready, hub_events, keyfobs, registered>>

(***************************************************************************)
(* Specifications                                                          *)
(***************************************************************************)
\* sensor.py as imported: KEYFOB_DICT = {}, no entity yet
SensorsNotSetUp ==
    /\ keyfobs = EmptyMap
    /\ registered = <<>>
    /\ sensors = EmptyMap
    /\ sensor_call = SensorCall("import", 0, "done")

\* ---- Spec: the alarm panel; the sensor platform is not set up ----
Init ==
    /\ PanelInit
    /\ hub_devices = <<>>
    /\ hub_events = <<>>
    /\ SensorsNotSetUp

Next ==
    \/ Update /\ UNCHANGED <<hub_devices, hub_events, sensorVars>>
    \/ AlarmDisarm /\ UNCHANGED <<hub_devices, hub_events, sensorVars>>
    \/ AlarmArmHome /\ UNCHANGED <<hub_devices, hub_events, sensorVars>>
    \/ AlarmArmAway /\ UNCHANGED <<hub_devices, hub_events, sensorVars>>
    \/ ArmEventListener /\ UNCHANGED <<hub_devices, hub_events, sensorVars>>

Spec == Init /\ [][Next]_vars

\* one panel, as constructed, for the specifications of the sensor platform
PanelIdle ==
    /\ hub_ready = TRUE
    /\ state = STATE_UNKNOWN
    /\ code = None
    /\ no_pin_required = PyTrue
    /\ changed_by = None
    /\ changed_timestamp = None
    /\ panel_call = NoCall

\* ---- SetupSpec: setup passes over the hub's device list and event log, and
\*      polls of the entities they register ----
SetupInit ==
    /\ PanelIdle
    /\ hub_state = "DISARM"
    /\ hub_devices \in DeviceLists
    /\ hub_events \in EventLogs
    /\ SensorsNotSetUp

\* What hub.update() may change before a poll of entity id: the keyfob number
\* of its device.
Renumbered(id) ==
    { hub_devices } \cup
    { [hub_devices EXCEPT ![id] = << [hub_devices[id][1] EXCEPT !.device_number = n] >>] :
        n \in IF hub_devices[id] # NoDevice /\ hub_devices[id][1].subtype = KEYFOB
              THEN KeyfobNumbers ELSE {} }

\* a poll between two setup passes
SensorPoll ==
    \E id \in DOMAIN sensors :
        \E devices \in Renumbered(id) : SensorUpdate(id, TRUE, devices, hub_state)

\* A setup pass.  Since the last handler ran, hub.update() finds the hub's data
\* as they were, or one entry of the device list changed, or another event log.
SetupAgain ==
    \/ SetupPlatform(hub_devices, hub_events)
    \/ \E i \in 1..MaxDevices : \E entry \in SetupEntriesAt[i] :
           SetupPlatform([hub_devices EXCEPT ![i] = entry], hub_events)
    \/ \E events \in EventLogs : SetupPlatform(hub_devices, events)

SetupNext ==
    \/ SetupAgain /\ UNCHANGED panelVars
    \/ SensorPoll /\ UNCHANGED panelVars

SetupSpec == SetupInit /\ [][SetupNext]_vars

\* ---- PollSpec: one registered entity, polled while the hub's record of its
\*      device and the alarm mode change freely ----
\* The platform was set up over a one-device list (any recognized subtype, any
\* keyfob number) and a log holding one use of keyfob 1.
PollInit ==
    /\ PanelIdle
    /\ hub_state = "DISARM"
    /\ \E d \in SetupRecords(1) :
        /\ d.subtype # NoneStr
        /\ IsRecognized(d.subtype)
        /\ hub_devices = << <<d>> >>
        /\ hub_events = << Event(1, UserAppointment(1)) >>
        /\ LET r == SetupPass(hub_devices, hub_events, EmptyMap)
           IN  /\ keyfobs = r.keyfobs
               /\ registered = r.added
               /\ sensors = [id \in { r.added[i] : i \in 1..Len(r.added) } |-> NewSensor]
    /\ sensor_call = SensorCall("setup", 0, "done")

\* what get_device_by_id(1) may find after a hub.update()
PollEntries == {NoDevice} \cup { <<d>> : d \in PollRecords(1) }

\* a poll in which hub.update() returns
SensorPollChanged ==
    \E id \in DOMAIN sensors, mode \in AlarmModes, entry \in PollEntries :
        SensorUpdate(id, TRUE, << entry >>, mode)

\* a poll in which hub.update() raises OSError
SensorPollFailed ==
    \E id \in DOMAIN sensors : SensorUpdate(id, FALSE, hub_devices, hub_state)

PollNext ==
    \/ SensorPollChanged /\ UNCHANGED panelVars
    \/ SensorPollFailed /\ UNCHANGED panelVars

PollSpec == PollInit /\ [][PollNext]_vars

(***************************************************************************)
(* Properties of the alarm panel (Spec)                                    *)
(***************************************************************************)
Commands    == {"alarm_disarm", "alarm_arm_home", "alarm_arm_away"}
ArmCommands == {"alarm_arm_home", "alarm_arm_away"}

AlarmStateEnum == {ARMED_AWAY, ARMED_HOME, DISARMED, ARMING, PENDING, TRIGGERED}

\* the table of the six status strings update() names
StatusTable ==
    [s \in {"AWAY", "HOME", "DISARM", "ARMING", "ENTRYDELAY", "ALARM"} |->
        CASE s = "AWAY"       -> "armed_away"
          [] s = "HOME"       -> "armed_home"
          [] s = "DISARM"     -> "disarmed"
          [] s = "ARMING"     -> "arming"
          [] s = "ENTRYDELAY" -> "pending"
          [] s = "ALARM"      -> "triggered"]

\* the call that just ran had its code accepted: it matched the configured
\* code, or no PIN is required
CodeAccepted == panel_call'.code = code \/ no_pin_required = PyTrue

\* C1: a command called with a code that differs from the configured one, while
\* no_pin_required is not true (false or unset), raises a notification, sends
\* nothing to the hub, does not poll it and leaves the panel state as it was;
\* so a command reaches the hub only from a call whose code was accepted.
C1_WrongPinAborts ==
    [][ panel_call'.op \in Commands =>
          /\ (no_pin_required # PyTrue /\ panel_call'.code # code) =>
                /\ panel_call'.notified
                /\ panel_call'.sent = "none"
                /\ ~panel_call'.polled
                /\ state' = state
          /\ panel_call'.sent # "none" => CodeAccepted ]_vars

\* C2: with an accepted code, arm_home and arm_away called while hub.alarm.ready
\* is false send nothing, raise a notification and leave the panel state as it
\* was; an arm command is sent only when ready is true; disarm with an accepted
\* code is sent whatever ready is.
C2_ReadyGate ==
    [][ /\ (panel_call'.op \in ArmCommands /\ CodeAccepted /\ ~hub_ready) =>
              /\ panel_call'.sent = "none"
              /\ panel_call'.notified
              /\ state' = state
        /\ (panel_call'.op \in ArmCommands /\ panel_call'.sent # "none") =>
              /\ hub_ready
              /\ panel_call'.sent = (IF panel_call'.op = "alarm_arm_home"
                                     THEN "arm_home" ELSE "arm_away")
        /\ (panel_call'.op = "alarm_disarm" /\ CodeAccepted) =>
              panel_call'.sent = "disarm" ]_vars

\* an arm_home call with the configured code, refused because the hub was not
\* ready, on a panel that checks the PIN
C2_Witness ==
    /\ panel_call.op = "alarm_arm_home"
    /\ no_pin_required = PyFalse
    /\ panel_call.code = code
    /\ ~panel_call.ready
    /\ panel_call.notified
    /\ panel_call.sent = "none"

\* C3: after update() (the scheduler's poll, or the poll a sent command ends
\* with) the panel state is the image of the hub's status under the table AWAY
\* -> armed_away, HOME -> armed_home, DISARM -> disarmed, ARMING -> arming,
\* ENTRYDELAY -> pending, ALARM -> triggered, whatever the state was before.
C3_UpdateMapsStatus ==
    (panel_call.polled /\ hub_state \in DOMAIN StatusTable) => state = StatusTable[hub_state]

\* a poll that found the hub in ENTRYDELAY
C3_Witness ==
    /\ panel_call.op = "update"
    /\ panel_call.polled
    /\ hub_state = "ENTRYDELAY"
    /\ state = "pending"

\* C4: the panel state is always one of armed_away, armed_home, disarmed,
\* arming, pending, triggered, or the initial unknown; no raw vendor status
\* becomes the entity state.
C4_StateInEnum == state \in AlarmStateEnum \cup {STATE_UNKNOWN}

\* C10: get_last_event is called, and changed_by / changed_timestamp are
\* overwritten, only in the listener's handling of an event for the panel's
\* entity whose old and new states differ and whose new state is armed_home,
\* armed_away or disarmed; both fields then come from the one fetched event.
\* Every other step (an ignored event, a poll, a command) fetches nothing and
\* leaves both fields as they were.
C10_FetchOnlyOnArmChange ==
    [][ /\ panel_call'.fetched =>
              /\ panel_call'.op = "event"
              /\ panel_call'.entity = "alarm_control_panel.visonic_alarm"
              /\ panel_call'.old # panel_call'.new
              /\ panel_call'.new \in {"armed_home", "armed_away", "disarmed"}
              /\ \E e \in LastEvents : /\ changed_by' = e.user
                                       /\ changed_timestamp' = e.timestamp
        /\ ~panel_call'.fetched =>
              /\ changed_by' = changed_by
              /\ changed_timestamp' = changed_timestamp ]_vars

\* a fetch has happened, and after it an event for another entity left what
\* was fetched in place
C10_Witness ==
    /\ panel_call.op = "event"
    /\ panel_call.entity # PANEL_ENTITY_ID
    /\ panel_call.new = ARMED_HOME
    /\ ~panel_call.fetched
    /\ changed_by = "Bob"
    /\ changed_timestamp = "11:30"

(***************************************************************************)
(* Properties of the sensor platform (SetupSpec, PollSpec)                 *)
(***************************************************************************)
\* the entity the last poll ran on, and the device the hub holds for it
Polled      == sensors[sensor_call.id]
PolledFound == GetDeviceById(hub_devices, sensor_call.id)

\* the entity carries the zone, name, device_type and subtype of device d
CarriesAttributesOf(sensor, d) ==
    /\ sensor.zone = d.zone
    /\ sensor.name = d.name
    /\ sensor.device_type = d.device_type
    /\ sensor.subtype = d.subtype

\* C5 (state part): after a poll that ran to its end the entity carries the
\* attributes of the device the hub returned.
C5_UpdatedCarriesDevice ==
    (sensor_call.op = "update" /\ sensor_call.outcome = "updated") =>
        /\ PolledFound # NoDevice
        /\ CarriesAttributesOf(Polled, PolledFound[1])

\* C5: a poll in which the hub raises OSError ends in the except branch and
\* leaves every entity's state and attributes exactly as they were; a poll that
\* later succeeds updates them from the device.
C5_OSErrorKeepsCache ==
    /\ [][ (sensor_call'.op = "update" /\ sensor_call'.outcome = "oserror") =>
              sensors' = sensors ]_vars
    /\ []C5_UpdatedCarriesDevice

\* an OSError poll of an entity that an earlier poll had filled in
C5_Witness ==
    /\ sensor_call.op = "update"
    /\ sensor_call.outcome = "oserror"
    /\ Polled.state = STATE_OPEN
    /\ Polled.subtype = CONTACT
    /\ Polled.name # None

\* C6: every poll either overwrites state, zone, name, device_type and subtype
\* from the one device record, or leaves the entity as it was; no poll leaves
\* the state or keyfob number updated while the other attributes are stale.
C6_PollAllOrNothing ==
    [][ sensor_call'.op = "update" =>
          LET id    == sensor_call'.id
              found == GetDeviceById(hub_devices', id)
          IN  \/ sensors'[id] = sensors[id]
              \/ /\ found # NoDevice
                 /\ CarriesAttributesOf(sensors'[id], found[1]) ]_vars

\* C7: on a poll of a device whose vendor status is not None the new state
\* follows from subtype, status, alarm mode and zone alone, the subtype tests
\* taken in the order motion/curtain, keyfob, contact.
C7_DerivedState ==
    (/\ sensor_call.op = "update"
     /\ sensor_call.outcome \in {"updated", "raised"}
     /\ PolledFound # NoDevice
     /\ PolledFound[1].state # None) =>
        LET d  == PolledFound[1]
            st == Polled.state
        IN  IF Contains(d.subtype, MOTION) \/ Contains(d.subtype, CURTAIN)
            THEN /\ hub_state \in {"DISARM", "ARMING"} =>
                        st = (IF Contains(d.zone, H24) THEN "on" ELSE "off")
                 /\ hub_state = "HOME" =>
                        st = (IF Contains(d.zone, INTERIOR) THEN "off" ELSE "on")
                 /\ hub_state \in {"AWAY", "DISARMING"} => st = "on"
                 /\ st \in {"on", "off", "unknown"}
            ELSE IF Contains(d.subtype, KEYFOB) THEN st = "closed"
            ELSE IF Contains(d.subtype, CONTACT)
                 THEN st = (IF d.state = "opened" THEN "open" ELSE "closed")
            ELSE st \in {"open", "closed", "unknown"}

\* a motion detector of an interior zone, polled with the alarm armed HOME
\* after an earlier poll had left it on
C7_Witness ==
    /\ sensor_call.op = "update"
    /\ sensor_call.outcome = "updated"
    /\ PolledFound # NoDevice
    /\ PolledFound[1].subtype = MOTION
    /\ PolledFound[1].zone = INTERIOR
    /\ hub_state = "HOME"
    /\ Polled.state = STATE_OFF

\* positions of the hub's list that hold a device with a recognized subtype
RecognizedAt ==
    { i \in 1..Len(hub_devices) :
        /\ hub_devices[i] # NoDevice
        /\ hub_devices[i][1].subtype # NoneStr
        /\ \E tag \in {CONTACT, MOTION, CURTAIN, KEYFOB} :
              Contains(hub_devices[i][1].subtype, tag) }

\* C8: a setup pass registers exactly one entity, carrying the device's id, for
\* each device that is not None and whose subtype is not None and contains
\* CONTACT, MOTION, CURTAIN or KEYFOB, and none for any other device.
C8_SetupRegistersRecognized ==
    sensor_call.op = "setup" =>
        LET ids == { hub_devices[i][1].id : i \in RecognizedAt }
        IN  /\ { registered[k] : k \in 1..Len(registered) } = ids
            /\ Len(registered) = Cardinality(ids)
            /\ DOMAIN sensors = ids

\* a pass over a smoke detector and a motion detector
C8_Witness ==
    /\ sensor_call.op = "setup"
    /\ Len(hub_devices) >= 2
    /\ hub_devices[1] # NoDevice
    /\ hub_devices[1][1].subtype = SMOKE
    /\ hub_devices[2] # NoDevice
    /\ hub_devices[2][1].subtype = MOTION
    /\ registered = <<2>>

\* positions of the hub's list that hold a keyfob
KeyfobAt ==
    { i \in 1..Len(hub_devices) :
        /\ hub_devices[i] # NoDevice
        /\ hub_devices[i][1].subtype # NoneStr
        /\ Contains(hub_devices[i][1].subtype, KEYFOB) }

\* (t, op) are the datetime and description of the first event of the log
\* whose appointment lower-cased is key, or None and None without one
IsFirstUse(key, t, op) ==
    LET matches == { k \in 1..Len(hub_events) : Lower(hub_events[k].appointment) = key }
    IN  IF matches = {} THEN t = NoneStr /\ op = None
        ELSE \E k \in matches :
                /\ \A m \in matches : k <= m
                /\ t = hub_events[k].datetime
                /\ op = hub_events[k].description

\* C9: after a setup pass the keyfob lookup holds exactly the keys 'user N' of
\* the keyfobs in the device list, each with the keyfob's name and id (of the
\* last keyfob in the list, should two carry one number) and the datetime and
\* description of the first event of the log for 'user N', or None and None;
\* a poll of a keyfob's entity that runs to its end sets last_time_used and
\* last_operation to the lookup's two values for the device's current number.
C9_KeyfobLookup ==
    /\ sensor_call.op = "setup" =>
          /\ DOMAIN keyfobs = { UserKey(hub_devices[i][1].device_number) : i \in KeyfobAt }
          /\ \A i \in KeyfobAt :
                LET d   == hub_devices[i][1]
                    key == UserKey(d.device_number)
                IN  /\ (\A j \in KeyfobAt :
                            j > i => hub_devices[j][1].device_number # d.device_number) =>
                          /\ keyfobs[key][1] = d.name
                          /\ keyfobs[key][2] = d.id
                    /\ IsFirstUse(key, keyfobs[key][3], keyfobs[key][4])
    /\ (/\ sensor_call.op = "update"
        /\ sensor_call.outcome = "updated"
        /\ Contains(PolledFound[1].subtype, KEYFOB)
        /\ ~Contains(PolledFound[1].subtype, MOTION)
        /\ ~Contains(PolledFound[1].subtype, CURTAIN)) =>
          LET key == UserKey(PolledFound[1].device_number)
          IN  /\ Polled.keyfob_number = <<PolledFound[1].device_number>>
              /\ Polled.last_time_used = keyfobs[key][3]
              /\ Polled.last_operation = keyfobs[key][4]

\* two keyfobs in the lookup; the entity of keyfob 2, renumbered 1 since the
\* pass, shows the use the log holds for user 1 (its second event)
C9_Witness ==
    /\ sensor_call.op = "update"
    /\ sensor_call.outcome = "updated"
    /\ sensor_call.id = 2
    /\ DOMAIN keyfobs = {UserKey(1), UserKey(2)}
    /\ keyfobs[UserKey(1)][2] = 1
    /\ Polled.keyfob_number = <<1>>
    /\ Polled.last_time_used = <<"#", "2">>
    /\ Polled.last_operation = "Disarm"

====
